---- MODULE Spec2Model ----
(***************************************************************************)
(* MarketOperationUtils (asset-swapper, market_operation_utils/index.ts).  *)
(*                                                                         *)
(* One call of getMarketSellOrdersAsync, getMarketBuyOrdersAsync or        *)
(* getBatchMarketBuyOrdersAsync is modelled from its entry to the          *)
(* settlement of the promise it returns.  The sampler, the indicative      *)
(* quote client, the path optimizer, the rate/slippage evaluators, the     *)
(* order materializer and the report generator are the environment: their  *)
(* results are chosen nondeterministically from bounded sets.              *)
(***************************************************************************)
EXTENDS Integers, Sequences, FiniteSets, TLC

(* ------------------------------ bounds --------------------------------- *)
MaxPairs == 2
MaxAmount == 3
MaxSlippage == 1

(* ------------------------------ helpers -------------------------------- *)
Range(s) == {s[k] : k \in DOMAIN s}

RECURSIVE SumInputs(_)
SumInputs(path) ==
    IF path = <<>> THEN 0 ELSE Head(path).input + SumInputs(Tail(path))

RECURSIVE Filter(_, _)
\* Array.prototype.filter with a predicate given as the set of kept elements
Filter(path, keep) ==
    IF path = <<>> THEN <<>>
    ELSE IF Head(path) \in keep
         THEN <<Head(path)>> \o Filter(Tail(path), keep)
         ELSE Filter(Tail(path), keep)

(* ------------------------------- fills --------------------------------- *)
Native == "Native"

\* Fill objects; id stands for the object identity that f !== g compares
FillN1 == [id |-> "n1", source |-> Native, input |-> 1]
FillN2 == [id |-> "n2", source |-> Native, input |-> 1]
FillU1 == [id |-> "u1", source |-> "Uniswap", input |-> 1]
FillK1 == [id |-> "k1", source |-> "Kyber", input |-> 2]

\* what createFillPaths returns: per-source fill paths, possibly an empty one
CandidatePaths == {<<FillN1, FillN2>>, <<FillU1>>, <<FillK1>>, <<>>}

AllFills(paths) == UNION {Range(p) : p \in paths}

RECURSIVE DistinctSeqs(_, _)
DistinctSeqs(S, n) ==
    IF n = 0 THEN {<<>>}
    ELSE LET prev == DistinctSeqs(S, n - 1)
         IN  prev \cup
             {Append(sx[1], sx[2]) :
                 sx \in {tx \in prev \X S :
                            Len(tx[1]) = n - 1 /\ tx[2] \notin Range(tx[1])}}

\* findOptimalPathAsync(side, paths, targetInput): a sequence of fills taken
\* from the candidate paths whose inputs sum to at most the target, or
\* nothing (<<>> after the caller's `|| []`) when there is no feasible path
FindOptimalPathResults(paths, inputAmount) ==
    {p \in DistinctSeqs(AllFills(paths), inputAmount) : SumInputs(p) <= inputAmount}

(* --------------------- _generateOptimizedOrdersAsync -------------------- *)
\* opts.maxFallbackSlippage || 0
MaxFallbackSlippageOf(o) ==
    IF o.maxFallbackSlippage.defined THEN o.maxFallbackSlippage.value ELSE 0

\* mutant: the empty-path check is missing
NoOptimalPathGuardNever(optimalPath) == FALSE

\* optimalPath.length === 0
NoOptimalPathGuard(optimalPath) == Len(optimalPath) = 0

\* optimalPath.filter(f => f.source === ERC20BridgeSource.Native)
NativeSubPath(optimalPath) ==
    Filter(optimalPath, {f \in Range(optimalPath) : f.source = Native})

\* mutant: allowFallback is not tested
FallbackGuardIgnoringFlag(allowFallback, nativeSubPath) ==
    Len(nativeSubPath) # 0

\* opts.allowFallback && nativeSubPath.length !== 0
FallbackGuard(allowFallback, nativeSubPath) ==
    allowFallback /\ Len(nativeSubPath) # 0

\* paths.filter(p => p.length > 0 && p[0].source !== ERC20BridgeSource.Native)
NonNativePaths(paths) ==
    {p \in paths : Len(p) > 0 /\ p[1].source # Native}

\* mutant: the slippage bound is exclusive
ShouldAdoptFallbackStrict(nativeSubPath, optimalPath, fallbackSlippage, maxFallbackSlippage) ==
    \/ Len(nativeSubPath) = Len(optimalPath)
    \/ fallbackSlippage < maxFallbackSlippage

\* mutant: an all-native path is not adopted unconditionally
ShouldAdoptFallbackSlippageOnly(nativeSubPath, optimalPath, fallbackSlippage, maxFallbackSlippage) ==
    fallbackSlippage <= maxFallbackSlippage

\* nativeSubPath.length === optimalPath.length || fallbackSlippage <= maxFallbackSlippage
ShouldAdoptFallback(nativeSubPath, optimalPath, fallbackSlippage, maxFallbackSlippage) ==
    \/ Len(nativeSubPath) = Len(optimalPath)
    \/ fallbackSlippage <= maxFallbackSlippage

\* mutant: the last fill is dropped whenever it is native
LastNativeFillAlways(optimalPath) ==
    IF optimalPath[Len(optimalPath)].source = Native
    THEN {optimalPath[Len(optimalPath)]}
    ELSE {}

\* const [last, penultimateIfExists] = optimalPath.slice().reverse();
\* the set holding lastNativeFillIfExists, empty when it is undefined
LastNativeFillIfExists(optimalPath) ==
    LET n == Len(optimalPath)
    IN  IF /\ optimalPath[n].source = Native
           /\ n >= 2
           /\ optimalPath[n - 1].source # Native
        THEN {optimalPath[n]}
        ELSE {}

\* mutant: the fallback path is spread twice
FallbackCompositeRepeated(nativeSubPath, lastNativeFillIfExists, nonNativeOptimalPath) ==
    Filter(nativeSubPath, Range(nativeSubPath) \ lastNativeFillIfExists)
        \o nonNativeOptimalPath \o nonNativeOptimalPath

\* mutant: the native fills are appended instead of prepended
FallbackCompositeNativeLast(nativeSubPath, lastNativeFillIfExists, nonNativeOptimalPath) ==
    nonNativeOptimalPath
        \o Filter(nativeSubPath, Range(nativeSubPath) \ lastNativeFillIfExists)

\* [...nativeSubPath.filter(f => f !== lastNativeFillIfExists), ...nonNativeOptimalPath]
FallbackComposite(nativeSubPath, lastNativeFillIfExists, nonNativeOptimalPath) ==
    Filter(nativeSubPath, Range(nativeSubPath) \ lastNativeFillIfExists)
        \o nonNativeOptimalPath

\* createOrdersFromPath(path, {inputToken, outputToken, ...}): one order per
\* fill, of the fill's source and between the pair's tokens
CreateOrdersFromPath(path, inputToken, outputToken) ==
    [k \in 1..Len(path) |->
        [source |-> path[k].source,
         inputToken |-> inputToken, outputToken |-> outputToken]]

\* the errors the external collaborators may raise inside one invocation:
\* an internal fault of the optimizer, an error of the order materializer
Faults == {"findOptimalPathAsync", "createOrdersFromPath"}

\* the record of an invocation that has not happened
NoGen ==
    [invoked |-> FALSE, pair |-> 0, inputAmount |-> 0, threw |-> "none",
     optimalPath |-> <<>>, fallbackSearched |-> FALSE,
     nonNativeOptimalPath |-> <<>>, fallbackSlippage |-> 0, adopted |-> FALSE,
     materialized |-> FALSE, path |-> <<>>, orders |-> <<>>, reported |-> FALSE,
     side |-> "none", args |-> <<>>]

\* what the environment hands to one invocation: a fault (or none), the two
\* optimizer results and the slippage of the fallback path.  Values the
\* invocation never reads are fixed, so that each run is listed once.
GenEnvs(o) ==
    LET unread == [nonNativeOptimalPath |-> <<>>, fallbackSlippage |-> 0]
        read == [nonNativeOptimalPath :
                     FindOptimalPathResults(NonNativePaths(CandidatePaths),
                                            o.inputAmount),
                 fallbackSlippage : 0..MaxSlippage]
        Env(fault, optimalPath, rest) ==
            [fault |-> fault, optimalPath |-> optimalPath,
             nonNativeOptimalPath |-> rest.nonNativeOptimalPath,
             fallbackSlippage |-> rest.fallbackSlippage]
    IN  {Env("findOptimalPathAsync", <<>>, unread), Env("none", <<>>, unread)}
        \cup
        UNION {
            {Env(fault, optimalPath, rest) :
                fault \in {"none", "createOrdersFromPath"},
                rest \in IF FallbackGuard(o.allowFallback, NativeSubPath(optimalPath))
                         THEN read ELSE {unread}} :
            optimalPath \in FindOptimalPathResults(CandidatePaths, o.inputAmount)
                             \ {<<>>}}

\* _generateOptimizedOrdersAsync(opts), as the record of what it did
GenerateOptimizedOrders(o, env) ==
    LET maxFallbackSlippage == MaxFallbackSlippageOf(o)
        started == [NoGen EXCEPT !.invoked = TRUE, !.pair = o.pair,
                                 !.inputAmount = o.inputAmount,
                                 !.side = o.side, !.args = o.args]
        optimalPath == env.optimalPath
        nativeSubPath == NativeSubPath(optimalPath)
        searched == FallbackGuard(o.allowFallback, nativeSubPath)
        nonNativeOptimalPath == IF searched THEN env.nonNativeOptimalPath ELSE <<>>
        fallbackSlippage == IF searched THEN env.fallbackSlippage ELSE 0
        adopted == searched /\ ShouldAdoptFallback(nativeSubPath, optimalPath,
                                                   fallbackSlippage, maxFallbackSlippage)
        path == IF adopted
                THEN FallbackComposite(nativeSubPath,
                                       LastNativeFillIfExists(optimalPath),
                                       nonNativeOptimalPath)
                ELSE optimalPath
        resolved == [started EXCEPT !.optimalPath = optimalPath,
                                    !.fallbackSearched = searched,
                                    !.nonNativeOptimalPath = nonNativeOptimalPath,
                                    !.fallbackSlippage = fallbackSlippage,
                                    !.adopted = adopted,
                                    !.materialized = TRUE,
                                    !.path = path]
    IN  IF env.fault = "findOptimalPathAsync"
        THEN [started EXCEPT !.threw = "findOptimalPathAsync"]
        ELSE IF NoOptimalPathGuard(optimalPath)
        THEN [started EXCEPT !.threw = "NoOptimalPath"]
        ELSE IF env.fault = "createOrdersFromPath"
        THEN [resolved EXCEPT !.threw = "createOrdersFromPath"]
        ELSE [resolved EXCEPT !.reported = TRUE,
                              !.orders = CreateOrdersFromPath(path, o.inputToken,
                                                              o.outputToken)]

(* ------------------------- sampler operations -------------------------- *)
Balancer == "Balancer"

\* the source lists of ./constants
SELL_SOURCES == {"Uniswap", "Kyber", Balancer}
BUY_SOURCES == {"Uniswap", "Kyber", Balancer}
FEE_QUOTE_SOURCES == {"Uniswap", "Kyber"}

\* the instance: a liquidity provider registry and a multi-bridge are configured
NullAddress == "0x0"
LiquidityProviderRegistry == "registry"
MultiBridge == "multibridge"

\* difference(a, b) of ../utils: the elements of a that are not in b
Difference(a, b) == a \ b

\* this._optionalSources()
OptionalSources ==
    (IF LiquidityProviderRegistry # NullAddress THEN {"LiquidityProvider"} ELSE {})
        \cup (IF MultiBridge # NullAddress THEN {"MultiBridge"} ELSE {})

\* an operation descriptor of DexOrderSampler.ops; token 0 stands for a token
\* that is not one of a pair (the wrapped ether address, an undefined token)
Op(name, orders, sources, makerToken, takerToken, sampleAmounts) ==
    [op |-> name, orders |-> orders, sources |-> sources,
     makerToken |-> makerToken, takerToken |-> takerToken,
     sampleAmounts |-> sampleAmounts]

\* the sampler returns one result per operation, the result of that operation
ResultOf(op) == [of |-> op]
\* executeAsync(...ops) / executeBatchAsync(ops): results in submission order
ExecuteResults(ops) == [k \in DOMAIN ops |-> ResultOf(ops[k])]

\* getNativeOrderTokens(orders[0]); <<0, 0>> when orders[0] is undefined and
\* the call returns
NativeOrderTokens(orders) ==
    IF Len(orders) = 0 THEN <<0, 0>>
    ELSE <<orders[1].makerAssetData, orders[1].takerAssetData>>

\* the sources of the ETH -> output token rate:
\* difference(FEE_QUOTE_SOURCES.concat(this._optionalSources()), _opts.excludedSources)
FeeQuoteSources(excludedSources) ==
    Difference(FEE_QUOTE_SOURCES \cup OptionalSources, excludedSources)

\* mutant: Balancer is left in the main quote request
MainQuoteSourcesWithBalancer(side, excludedSources) ==
    IF side = "sell"
    THEN Difference(SELL_SOURCES \cup OptionalSources, excludedSources)
    ELSE Difference(BUY_SOURCES \cup
                        (IF LiquidityProviderRegistry # NullAddress
                         THEN {"LiquidityProvider"} ELSE {}),
                    excludedSources)

\* the sources of the main quote request: SELL_SOURCES / BUY_SOURCES and the
\* optional sources, less _opts.excludedSources.concat(ERC20BridgeSource.Balancer)
MainQuoteSources(side, excludedSources) ==
    IF side = "sell"
    THEN Difference(SELL_SOURCES \cup OptionalSources,
                    excludedSources \cup {Balancer})
    ELSE Difference(BUY_SOURCES \cup
                        (IF LiquidityProviderRegistry # NullAddress
                         THEN {"LiquidityProvider"} ELSE {}),
                    excludedSources \cup {Balancer})

\* difference([ERC20BridgeSource.Balancer], _opts.excludedSources)
BalancerQuoteSources(excludedSources) == Difference({Balancer}, excludedSources)

\* the four operations of samplerPromise
SamplerOps(side, nativeOrders, amount, excludedSources) ==
    LET tokens == NativeOrderTokens(nativeOrders)
    IN  << Op(IF side = "sell" THEN "getOrderFillableTakerAmounts"
                               ELSE "getOrderFillableMakerAmounts",
              nativeOrders, {}, 0, 0, <<>>),
           Op("getLiquidityProviderFromRegistry", <<>>, {}, tokens[1], tokens[2], <<>>),
           Op("getMedianSellRate", <<>>, FeeQuoteSources(excludedSources),
              IF side = "sell" THEN tokens[1] ELSE tokens[2], 0, <<>>),
           Op(IF side = "sell" THEN "getSellQuotes" ELSE "getBuyQuotes", <<>>,
              MainQuoteSources(side, excludedSources), tokens[1], tokens[2],
              <<amount>>) >>

\* the operation of balancerPromise
BalancerOps(side, nativeOrders, amount, excludedSources) ==
    LET tokens == NativeOrderTokens(nativeOrders)
    IN  << Op(IF side = "sell" THEN "getSellQuotes" ELSE "getBuyQuotes", <<>>,
              BalancerQuoteSources(excludedSources), tokens[1], tokens[2],
              <<amount>>) >>

ExecuteAsync(ops) == [method |-> "executeAsync", ops |-> ops]
ExecuteBatchAsync(ops) == [method |-> "executeBatchAsync", ops |-> ops]

\* mutant: the second round trip is issued again
SingleExecuteAsyncCallsRetried(side, nativeOrders, amount, excludedSources) ==
    << ExecuteAsync(SamplerOps(side, nativeOrders, amount, excludedSources)),
       ExecuteAsync(BalancerOps(side, nativeOrders, amount, excludedSources)),
       ExecuteAsync(BalancerOps(side, nativeOrders, amount, excludedSources)) >>

\* the executeAsync calls of a sell or buy call: samplerPromise, balancerPromise
SingleExecuteAsyncCalls(side, nativeOrders, amount, excludedSources) ==
    << ExecuteAsync(SamplerOps(side, nativeOrders, amount, excludedSources)),
       ExecuteAsync(BalancerOps(side, nativeOrders, amount, excludedSources)) >>

\* mutant: the operations are listed pair by pair
BatchOpsByPair(batch, makerAmounts, excludedSources) ==
    LET n == Len(batch)
        sources == Difference(BUY_SOURCES, excludedSources)
    IN  [k \in 1..(3 * n) |->
            LET i == ((k - 1) \div 3) + 1
                tokens == NativeOrderTokens(batch[i])
            IN  IF (k - 1) % 3 = 0
                THEN Op("getOrderFillableMakerAmounts", batch[i], {}, 0, 0, <<>>)
                ELSE IF (k - 1) % 3 = 1
                THEN Op("getMedianSellRate", <<>>,
                        Difference(FEE_QUOTE_SOURCES, excludedSources),
                        tokens[2], 0, <<>>)
                ELSE Op("getBuyQuotes", <<>>, sources, tokens[1], tokens[2],
                        <<makerAmounts[i]>>)]

\* const ops = [...fillable amounts, ...median sell rates, ...buy quotes]
BatchOps(batch, makerAmounts, excludedSources) ==
    LET n == Len(batch)
        sources == Difference(BUY_SOURCES, excludedSources)
    IN  [i \in 1..n |->
            Op("getOrderFillableMakerAmounts", batch[i], {}, 0, 0, <<>>)]
        \o
        [i \in 1..n |->
            Op("getMedianSellRate", <<>>,
               Difference(FEE_QUOTE_SOURCES, excludedSources),
               NativeOrderTokens(batch[i])[2], 0, <<>>)]
        \o
        [i \in 1..n |->
            Op("getBuyQuotes", <<>>, sources, NativeOrderTokens(batch[i])[1],
               NativeOrderTokens(batch[i])[2], <<makerAmounts[i]>>)]

\* executeResults.splice(0, batchNativeOrders.length), three times
BatchBlocks(executeResults, n) ==
    << SubSeq(executeResults, 1, n),
       SubSeq(executeResults, n + 1, 2 * n),
       SubSeq(executeResults, 2 * n + 1, 3 * n) >>

\* requestRfqtIndicativeQuotesAsync(makerAssetData, takerAssetData,
\* assetFillAmount, marketOperation, opts.rfqt): the request and its quotes
RfqtRequest(side, nativeOrders, amount) ==
    [makerAssetData |-> nativeOrders[1].makerAssetData,
     takerAssetData |-> nativeOrders[1].takerAssetData,
     assetFillAmount |-> amount, marketOperation |-> side]
RfqtQuotes(request) == <<[quoteFor |-> request]>>

(* ------------------------------- state --------------------------------- *)
VARIABLES
    entry,              \* "sell", "buy" or "batch": the entry point called
    batchNativeOrders,  \* per pair, its native orders (one pair for sell/buy)
    amounts,            \* per pair, takerAmount / makerAmount
    opts,               \* _opts, the merged options bundle
    pc,                 \* where the call is
    outcome,            \* how the returned promise settled
    returned,           \* the value the batch call resolved to
    calls,              \* calls made to the sampler, its op factory, the quote client
    branches,           \* single-pair: samplerPromise, rfqtPromise, balancerPromise
    pairState,          \* batch: per pair, the state of its map callback
    pairError,          \* batch: per pair, what its _generateOptimizedOrdersAsync threw
    result,             \* batch: per pair, what its map callback returned
    gen,                \* the latest _generateOptimizedOrdersAsync invocation
    submitted,          \* the calls made to the sampler, in order, with their operations
    rfqtRequests,       \* the requests made to the indicative quote client
    joined,             \* single-pair: the values Promise.all has collected
    settleOrder         \* single-pair: the branches in the order they resolved

vars == <<entry, batchNativeOrders, amounts, opts, pc, outcome, returned, calls,
          branches, pairState, pairError, result, gen, submitted, rfqtRequests,
          joined, settleOrder>>

Branches == {"sampler", "rfqt", "balancer"}

\* a native order of pair i; its asset data name the pair's tokens
NativeOrder(i) == [makerAssetData |-> i, takerAssetData |-> 0 - i]

\* getNativeOrderTokens(order): [makerToken, takerToken]
GetNativeOrderTokens(order) == <<order.makerAssetData, order.takerAssetData>>

NoRfqt == [present |-> FALSE, isIndicative |-> FALSE, quoteRequestor |-> FALSE]

RfqtOpts ==
    {NoRfqt} \cup
    {r \in [present : {TRUE}, isIndicative : BOOLEAN, quoteRequestor : BOOLEAN] :
        r.isIndicative \/ r.quoteRequestor}

\* the excludedSources a caller passes: none, an optional source, an optional
\* source and Balancer
ExcludedSourcesChoices == {{}, {"MultiBridge"}, {"MultiBridge", Balancer}}

OptsBundles ==
    [allowFallback : BOOLEAN,
     maxFallbackSlippage : {[defined |-> FALSE, value |-> 0]} \cup
                           [defined : {TRUE}, value : 1..MaxSlippage],
     rfqt : RfqtOpts,
     excludedSources : ExcludedSourcesChoices]

Pairs == 1..Len(batchNativeOrders)

Undefined == [kind |-> "undefined", orders |-> <<>>]
Pending == [kind |-> "pending", orders |-> <<>>]
Orders(optimizedOrders) == [kind |-> "orders", orders |-> optimizedOrders]
Value(v) == [kind |-> "value", value |-> v]

\* mutant: the indicative quote promise is left out of the join
PromiseAllInputsWithoutRfqt == <<"sampler", "balancer">>

\* Promise.all([samplerPromise, rfqtPromise, balancerPromise])
PromiseAllInputs == <<"sampler", "rfqt", "balancer">>

NoCalls == [executeAsync |-> 0, executeBatchAsync |-> 0, ops |-> 0, rfqt |-> 0]

\* a batch call is given the options with and without an enabled indicative
\* quote configuration
BatchRfqtOpts ==
    {NoRfqt, [present |-> TRUE, isIndicative |-> TRUE, quoteRequestor |-> TRUE]}

\* a batch call is given excludedSources that name sources
BatchExcludedSources == {"MultiBridge", Balancer}

\* the makerAmounts of a batch call: 1 for the odd pairs, 2 for the even ones
BatchMakerAmount(i) == IF i % 2 = 1 THEN 1 ELSE 2

Init ==
    /\ entry \in {"sell", "buy", "batch"}
    /\ opts \in OptsBundles
    /\ entry = "batch" => opts.rfqt \in BatchRfqtOpts
    /\ entry = "batch" => opts.excludedSources = BatchExcludedSources
    /\ \E n \in (IF entry = "batch" THEN 0..MaxPairs ELSE {1}) :
          /\ batchNativeOrders \in
                {b \in [1..n -> {<<>>} \cup {<<NativeOrder(i)>> : i \in 1..n}] :
                    \A i \in 1..n : b[i] \in {<<>>, <<NativeOrder(i)>>}}
          /\ IF entry = "batch"
             THEN amounts = [i \in 1..n |-> BatchMakerAmount(i)]
             ELSE amounts \in [1..n -> 1..MaxAmount]
    /\ pc = "start"
    /\ outcome = "pending"
    /\ returned = <<>>
    /\ calls = NoCalls
    /\ branches = [b \in Branches |-> "idle"]
    /\ pairState = [i \in Pairs |-> "idle"]
    /\ pairError = [i \in Pairs |-> "none"]
    /\ result = [i \in Pairs |-> Pending]
    /\ gen = NoGen
    /\ submitted = <<>>
    /\ rfqtRequests = <<>>
    /\ joined = [k \in DOMAIN PromiseAllInputs |-> Pending]
    /\ settleOrder = <<>>

(* ------------------- getMarketSell/BuyOrdersAsync ---------------------- *)
\* mutant: the empty-orders check is missing
EmptyOrdersGuardNever(nativeOrders) == FALSE

\* nativeOrders.length === 0
EmptyOrdersGuard(nativeOrders) == Len(nativeOrders) = 0

\* mutant: the isIndicative flag is not tested
RfqtIndicativeGuardIgnoringFlag(o) ==
    o.rfqt.present /\ o.rfqt.quoteRequestor

\* opts.rfqt && opts.rfqt.isIndicative === true && opts.rfqt.quoteRequestor
RfqtIndicativeGuard(o) ==
    o.rfqt.present /\ o.rfqt.isIndicative /\ o.rfqt.quoteRequestor

\* mutant: the batch call passes the indicative quotes the options ask for
BatchRfqtIndicativeQuotesRequested(o) ==
    IF RfqtIndicativeGuard(o)
    THEN RfqtQuotes(RfqtRequest("buy", batchNativeOrders[1], amounts[1]))
    ELSE <<>>

\* getBatchMarketBuyOrdersAsync: rfqtIndicativeQuotes: []
BatchRfqtIndicativeQuotes(o) == <<>>

\* the value Promise.all holds at a position, the k-th element of a result list
ValueAt(values, k) ==
    IF k \in DOMAIN values /\ values[k].kind = "value" THEN values[k].value ELSE <<>>
ItemAt(list, k) == IF k \in DOMAIN list THEN list[k] ELSE Undefined

\* const [[orderFillableAmounts, liquidityProviderAddress, ethToMakerAssetRate,
\* dexQuotes], rfqtIndicativeQuotes, [balancerQuotes]] = await Promise.all(...)
\* and dexQuotes: dexQuotes.concat(balancerQuotes)
SingleArgs ==
    LET samplerResults == ValueAt(joined, 1)
        rfqtIndicativeQuotes == ValueAt(joined, 2)
        balancerResults == ValueAt(joined, 3)
    IN  [orderFillableAmounts |-> ItemAt(samplerResults, 1),
         liquidityProviderAddress |-> ItemAt(samplerResults, 2),
         ethToOutputRate |-> ItemAt(samplerResults, 3),
         dexQuotes |-> <<ItemAt(samplerResults, 4), ItemAt(balancerResults, 1)>>,
         rfqtIndicativeQuotes |-> rfqtIndicativeQuotes]

\* batchOrderFillableAmounts[i], batchEthToTakerAssetRate[i], batchDexQuotes[i];
\* no liquidityProviderAddress is passed
BatchArgs(i) ==
    LET blocks == BatchBlocks(ExecuteResults(submitted[1].ops),
                              Len(batchNativeOrders))
    IN  [orderFillableAmounts |-> blocks[1][i],
         liquidityProviderAddress |-> Undefined,
         ethToOutputRate |-> blocks[2][i],
         dexQuotes |-> <<blocks[3][i]>>,
         rfqtIndicativeQuotes |-> BatchRfqtIndicativeQuotes(opts)]

\* the arguments one pair hands to _generateOptimizedOrdersAsync
GenOpts(i) ==
    LET tokens == GetNativeOrderTokens(batchNativeOrders[i][1])
    IN  [pair |-> i,
         side |-> IF entry = "sell" THEN "sell" ELSE "buy",
         args |-> IF entry = "batch" THEN BatchArgs(i) ELSE SingleArgs,
         inputToken |-> IF entry = "sell" THEN tokens[2] ELSE tokens[1],
         outputToken |-> IF entry = "sell" THEN tokens[1] ELSE tokens[2],
         inputAmount |-> amounts[i],
         allowFallback |-> opts.allowFallback,
         maxFallbackSlippage |-> opts.maxFallbackSlippage]

\* the number of operations built for a list of sampler calls
RECURSIVE SumOps(_)
SumOps(submissions) ==
    IF Len(submissions) = 0 THEN 0
    ELSE Len(submissions[1].ops) + SumOps(Tail(submissions))

\* what a branch resolves with: the results of its sampler call, the quotes of
\* its request
BranchValue(b) ==
    CASE b = "sampler" -> ExecuteResults(submitted[1].ops)
      [] b = "balancer" -> ExecuteResults(submitted[2].ops)
      [] b = "rfqt" -> RfqtQuotes(rfqtRequests[1])

\* mutant: the values are collected in completion order
PromiseAllSettleInCompletionOrder(values, i, v) ==
    LET k == CHOOSE k \in DOMAIN values :
                 values[k] = Pending /\ \A j \in 1..(k - 1) : values[j] # Pending
    IN  [values EXCEPT ![k] = v]

\* Promise.all(promises): the value of the i-th promise goes to the i-th slot
\* of the resolved list
PromiseAllSettle(values, i, v) == [values EXCEPT ![i] = v]

\* Promise.all stores the value of an input promise at the position of that
\* promise in the input list
Join(values, b, v) ==
    IF \E k \in DOMAIN PromiseAllInputs : PromiseAllInputs[k] = b
    THEN PromiseAllSettle(values,
                          CHOOSE k \in DOMAIN PromiseAllInputs : PromiseAllInputs[k] = b,
                          Value(v))
    ELSE values

\* if (nativeOrders.length === 0) throw new Error(AggregationError.EmptyOrders)
SingleEmptyOrders ==
    /\ entry \in {"sell", "buy"}
    /\ pc = "start"
    /\ EmptyOrdersGuard(batchNativeOrders[1])
    /\ outcome' = "EmptyOrders"
    /\ pc' = "done"
    /\ UNCHANGED <<entry, batchNativeOrders, amounts, opts, returned, calls,
                   branches, pairState, pairError, result, gen, submitted,
                   rfqtRequests, joined, settleOrder>>

\* builds the sampler operations and starts samplerPromise, rfqtPromise and
\* balancerPromise
SingleSample ==
    /\ entry \in {"sell", "buy"}
    /\ pc = "start"
    /\ ~EmptyOrdersGuard(batchNativeOrders[1])
    /\ submitted' = SingleExecuteAsyncCalls(entry, batchNativeOrders[1], amounts[1],
                                            opts.excludedSources)
    /\ rfqtRequests' = IF RfqtIndicativeGuard(opts)
                       THEN <<RfqtRequest(entry, batchNativeOrders[1], amounts[1])>>
                       ELSE <<>>
    /\ calls' = [calls EXCEPT !.ops = @ + SumOps(submitted'),
                              !.executeAsync = @ + Len(submitted'),
                              !.rfqt = @ + Len(rfqtRequests')]
    /\ branches' = [b \in Branches |->
                       IF b = "rfqt" /\ ~RfqtIndicativeGuard(opts)
                       THEN "resolved" ELSE "pending"]
    /\ joined' = IF RfqtIndicativeGuard(opts)
                 THEN joined
                 ELSE Join(joined, "rfqt", <<>>)
    /\ settleOrder' = IF RfqtIndicativeGuard(opts) THEN settleOrder ELSE <<"rfqt">>
    /\ pc' = "sampling"
    /\ UNCHANGED <<entry, batchNativeOrders, amounts, opts, outcome, returned,
                   pairState, pairError, result, gen>>

\* one of the three promises resolves
BranchResolve(b) ==
    /\ branches[b] = "pending"
    /\ branches' = [branches EXCEPT ![b] = "resolved"]
    /\ joined' = Join(joined, b, BranchValue(b))
    /\ settleOrder' = Append(settleOrder, b)
    /\ UNCHANGED <<entry, batchNativeOrders, amounts, opts, pc, outcome, returned,
                   calls, pairState, pairError, result, gen, submitted,
                   rfqtRequests>>

\* one of the three promises rejects; Promise.all rejects with the first rejection
BranchReject(b) ==
    /\ branches[b] = "pending"
    /\ branches' = [branches EXCEPT ![b] = "rejected"]
    /\ IF pc = "sampling" /\ b \in Range(PromiseAllInputs)
       THEN outcome' = "Rejected" /\ pc' = "done"
       ELSE UNCHANGED <<outcome, pc>>
    /\ UNCHANGED <<entry, batchNativeOrders, amounts, opts, returned, calls,
                   pairState, pairError, result, gen, submitted, rfqtRequests,
                   joined, settleOrder>>

\* Promise.all resolved: return this._generateOptimizedOrdersAsync({...})
SingleGenerate ==
    /\ entry \in {"sell", "buy"}
    /\ pc = "sampling"
    /\ \A b \in Range(PromiseAllInputs) : branches[b] = "resolved"
    /\ \E env \in GenEnvs(GenOpts(1)) :
          LET g == GenerateOptimizedOrders(GenOpts(1), env)
          IN  /\ gen' = g
              /\ outcome' = IF g.threw = "none" THEN "resolved" ELSE g.threw
    /\ pc' = "done"
    /\ UNCHANGED <<entry, batchNativeOrders, amounts, opts, returned, calls,
                   branches, pairState, pairError, result, submitted,
                   rfqtRequests, joined, settleOrder>>

(* -------------------- getBatchMarketBuyOrdersAsync ---------------------- *)
\* mutant: the empty-batch check is missing
EmptyBatchGuardNever(batch) == FALSE

\* batchNativeOrders.length === 0
EmptyBatchGuard(batch) == Len(batch) = 0

\* try { return (await this._generateOptimizedOrdersAsync(...)).optimizedOrders }
\* catch (e) { return undefined }
BatchPairResult(g) ==
    IF g.threw # "none" THEN Undefined ELSE Orders(g.orders)

\* if (batchNativeOrders.length === 0) throw new Error(AggregationError.EmptyOrders)
BatchEmptyBatch ==
    /\ entry = "batch"
    /\ pc = "start"
    /\ EmptyBatchGuard(batchNativeOrders)
    /\ outcome' = "EmptyOrders"
    /\ pc' = "done"
    /\ UNCHANGED <<entry, batchNativeOrders, amounts, opts, returned, calls,
                   branches, pairState, pairError, result, gen, submitted,
                   rfqtRequests, joined, settleOrder>>

\* builds the 3N operations and calls executeBatchAsync(ops).  For a pair with
\* no native order, orders[0] is undefined and getNativeOrderTokens(undefined)
\* either throws (the call rejects with that error after the N fillable-amount
\* operations and the other pairs' rate operations were built) or returns
BatchSample ==
    /\ entry = "batch"
    /\ pc = "start"
    /\ ~EmptyBatchGuard(batchNativeOrders)
    /\ LET n == Len(batchNativeOrders)
           empty == {i \in Pairs : Len(batchNativeOrders[i]) = 0}
       IN  \E tokensThrow \in (IF empty = {} THEN {FALSE} ELSE BOOLEAN) :
              IF tokensThrow
              THEN /\ calls' = [calls EXCEPT !.ops = @ + n + (n - Cardinality(empty))]
                   /\ submitted' = submitted
                   /\ outcome' = "TypeError"
                   /\ pc' = "done"
              ELSE /\ submitted' =
                          <<ExecuteBatchAsync(BatchOps(batchNativeOrders, amounts,
                                                       opts.excludedSources))>>
                   /\ calls' = [calls EXCEPT !.ops = @ + SumOps(submitted'),
                                             !.executeBatchAsync = @ + Len(submitted')]
                   /\ outcome' = outcome
                   /\ pc' = "sampling"
    /\ UNCHANGED <<entry, batchNativeOrders, amounts, opts, returned, branches,
                   pairState, pairError, result, gen, rfqtRequests, joined, settleOrder>>

\* executeBatchAsync rejects
BatchSamplerReject ==
    /\ entry = "batch"
    /\ pc = "sampling"
    /\ outcome' = "Rejected"
    /\ pc' = "done"
    /\ UNCHANGED <<entry, batchNativeOrders, amounts, opts, returned, calls,
                   branches, pairState, pairError, result, gen, submitted,
                   rfqtRequests, joined, settleOrder>>

\* executeBatchAsync resolves; the results are spliced and every map callback
\* runs up to its first await: a pair with no native order throws EmptyOrders,
\* outside the try, and Promise.all rejects with it
BatchSamplerResolve ==
    /\ entry = "batch"
    /\ pc = "sampling"
    /\ pairState' = [i \in Pairs |->
                        IF EmptyOrdersGuard(batchNativeOrders[i])
                        THEN "rejected" ELSE "running"]
    /\ IF \E i \in Pairs : EmptyOrdersGuard(batchNativeOrders[i])
       THEN outcome' = "EmptyOrders" /\ pc' = "done"
       ELSE outcome' = outcome /\ pc' = "resolving"
    /\ UNCHANGED <<entry, batchNativeOrders, amounts, opts, returned, calls,
                   branches, pairError, result, gen, submitted, rfqtRequests,
                   joined, settleOrder>>

\* the map callback of pair i completes; when it is the last one, Promise.all
\* resolves with the list of values
BatchResolvePair(i) ==
    /\ entry = "batch"
    /\ pairState[i] = "running"
    /\ \E env \in GenEnvs(GenOpts(i)) :
          LET g == GenerateOptimizedOrders(GenOpts(i), env)
          IN  /\ gen' = g
              /\ pairError' = [pairError EXCEPT ![i] = g.threw]
              /\ result' = PromiseAllSettle(result, i, BatchPairResult(g))
    /\ pairState' = [pairState EXCEPT ![i] = "settled"]
    /\ IF pc = "resolving" /\ \A j \in Pairs \ {i} : pairState[j] = "settled"
       THEN outcome' = "resolved" /\ returned' = result' /\ pc' = "done"
       ELSE UNCHANGED <<outcome, returned, pc>>
    /\ UNCHANGED <<entry, batchNativeOrders, amounts, opts, calls, branches,
                   submitted, rfqtRequests, joined, settleOrder>>

(* --------------------------- specification ------------------------------ *)
Next ==
    \/ SingleEmptyOrders
    \/ SingleSample
    \/ \E b \in Branches : BranchResolve(b)
    \/ \E b \in Branches : BranchReject(b)
    \/ SingleGenerate
    \/ BatchEmptyBatch
    \/ BatchSample
    \/ BatchSamplerReject
    \/ BatchSamplerResolve
    \/ \E i \in Pairs : BatchResolvePair(i)

Spec == Init /\ [][Next]_vars

(* ------------------------------- claims --------------------------------- *)
IsSingle == entry \in {"sell", "buy"}
IsNative(f) == f.source = Native
NativeFills(path) == SelectSeq(path, IsNative)
AllNative(path) == \A k \in DOMAIN path : IsNative(path[k])
\* no native fill after a non-native one
NativeFirst(path) ==
    \A j, k \in DOMAIN path : j < k => ~(~IsNative(path[j]) /\ IsNative(path[k]))
\* the last fill is native and the one before it exists and is not
HasHangingFill(path) ==
    /\ Len(path) >= 2
    /\ IsNative(path[Len(path)])
    /\ ~IsNative(path[Len(path) - 1])
\* the native fills a fallback composite keeps: all of them, in order, but a
\* hanging last one
RetainedNative(path) ==
    IF HasHangingFill(path)
    THEN SubSeq(NativeFills(path), 1, Len(NativeFills(path)) - 1)
    ELSE NativeFills(path)
Occurrences(path, f) == Cardinality({k \in DOMAIN path : path[k] = f})
OptsMaxFallbackSlippage ==
    IF opts.maxFallbackSlippage.defined THEN opts.maxFallbackSlippage.value ELSE 0

\* C1: a sell or buy call with zero native orders raises EmptyOrders, and on
\* that call the sampler is never called, no sampling operation is built, no
\* indicative quote is requested and nothing later runs.
C1_EmptyOrdersFailFast ==
    (IsSingle /\ Len(batchNativeOrders[1]) = 0) =>
        /\ calls = NoCalls
        /\ \A b \in Branches : branches[b] = "idle"
        /\ ~gen.invoked
        /\ pc \in {"start", "done"}
        /\ pc = "done" => outcome = "EmptyOrders"

C1_Witness ==
    /\ IsSingle
    /\ Len(batchNativeOrders[1]) = 0
    /\ pc = "done"
    /\ outcome = "EmptyOrders"

\* C2: in a batch whose pairs all have native orders and either succeed or
\* have no optimal path, once every pair has completed (in any order) the call
\* has resolved to a list of N entries, entry i being undefined exactly when
\* pair i had no optimal path and otherwise the orders materialized for pair i.
C2_BatchIsolatesNoOptimalPath ==
    (/\ entry = "batch"
     /\ Pairs # {}
     /\ \A i \in Pairs : pairState[i] = "settled"
     /\ \A i \in Pairs : pairError[i] \in {"none", "NoOptimalPath"}) =>
        /\ outcome = "resolved"
        /\ Len(returned) = Len(batchNativeOrders)
        /\ \A i \in Pairs :
              /\ returned[i] = Undefined <=> pairError[i] = "NoOptimalPath"
              /\ pairError[i] = "none" =>
                    /\ returned[i].kind = "orders"
                    /\ \A k \in DOMAIN returned[i].orders :
                          /\ returned[i].orders[k].inputToken =
                                 batchNativeOrders[i][1].makerAssetData
                          /\ returned[i].orders[k].outputToken =
                                 batchNativeOrders[i][1].takerAssetData
              /\ (gen.pair = i /\ gen.threw = "none") =>
                    returned[i] = Orders(gen.orders)

\* pair 1 completed last, one pair had no optimal path and another got orders
C2_Witness ==
    /\ entry = "batch"
    /\ outcome = "resolved"
    /\ Len(returned) >= 2
    /\ gen.pair = 1
    /\ \A i \in Pairs : pairError[i] \in {"none", "NoOptimalPath"}
    /\ \E i, j \in Pairs :
          /\ pairError[i] = "NoOptimalPath" /\ returned[i] = Undefined
          /\ returned[j].kind = "orders" /\ Len(returned[j].orders) > 0

\* C3: in a batch, a failure of a pair other than NoOptimalPath (an optimizer
\* fault, a materialization error) is not isolated: the batch call does not
\* resolve.
C3_OtherFailuresAbortBatch ==
    (entry = "batch" /\ \E i \in Pairs : pairError[i] \in Faults) =>
        outcome # "resolved"

\* C4: in a non-empty batch with a pair that has no native order, the call
\* fails with EmptyOrders before any sampling operation is built and before
\* executeBatchAsync is called.
C4_EmptyPairFailsBeforeSampling ==
    (entry = "batch" /\ \E i \in Pairs : Len(batchNativeOrders[i]) = 0) =>
        /\ calls.ops = 0
        /\ calls.executeBatchAsync = 0
        /\ pc = "done" => outcome = "EmptyOrders"

\* C5 (as claimed): the path handed to the order materializer has fill inputs
\* summing to at most the requested amount.
C5_AmountBound ==
    gen.materialized => SumInputs(gen.path) <= gen.inputAmount

\* C5 (amended): the path handed to the order materializer sums to at most the
\* requested amount when the fallback composite is not adopted; when it is
\* adopted, the retained native fills and the appended fallback path each sum
\* to at most the requested amount, so the path sums to at most twice it.
C5_AmountBoundAmended ==
    gen.materialized =>
        /\ ~gen.adopted => SumInputs(gen.path) <= gen.inputAmount
        /\ gen.adopted =>
              /\ SumInputs(NativeFills(gen.path)) <= gen.inputAmount
              /\ SumInputs(gen.path) - SumInputs(NativeFills(gen.path))
                     <= gen.inputAmount
              /\ SumInputs(gen.path) <= 2 * gen.inputAmount

\* an adopted composite that exceeds the requested amount
C5_Witness ==
    /\ gen.materialized
    /\ gen.adopted
    /\ SumInputs(gen.path) > gen.inputAmount

\* C6: with fallback allowed and an optimal path holding both native and
\* non-native fills, the composite is adopted exactly when fallbackSlippage <=
\* maxFallbackSlippage; otherwise the resolved path is optimalPath itself.
C6_MixedPathAdoptsBySlippage ==
    (/\ gen.materialized
     /\ opts.allowFallback
     /\ \E k \in DOMAIN gen.optimalPath : IsNative(gen.optimalPath[k])
     /\ \E k \in DOMAIN gen.optimalPath : ~IsNative(gen.optimalPath[k])) =>
        /\ gen.fallbackSearched
        /\ gen.adopted <=> gen.fallbackSlippage <= OptsMaxFallbackSlippage
        /\ gen.adopted =>
              gen.path = RetainedNative(gen.optimalPath) \o gen.nonNativeOptimalPath
        /\ ~gen.adopted => gen.path = gen.optimalPath

\* a mixed path adopted with the slippage exactly at the bound
C6_Witness ==
    /\ gen.materialized
    /\ opts.allowFallback
    /\ \E k \in DOMAIN gen.optimalPath : IsNative(gen.optimalPath[k])
    /\ \E k \in DOMAIN gen.optimalPath : ~IsNative(gen.optimalPath[k])
    /\ gen.fallbackSlippage = OptsMaxFallbackSlippage
    /\ gen.adopted
    /\ gen.path # gen.optimalPath

\* C7: when the composite is adopted, a hanging last native fill (last fill
\* native, the one before it not) is nowhere in the resolved path and every
\* other native fill is there exactly once, in order, before the fallback
\* path; without a hanging fill no native fill is dropped.
C7_HangingFillDropped ==
    (gen.materialized /\ gen.adopted) =>
        LET optimalPath == gen.optimalPath
            last == optimalPath[Len(optimalPath)]
        IN  /\ gen.path = RetainedNative(optimalPath) \o gen.nonNativeOptimalPath
            /\ HasHangingFill(optimalPath) =>
                  /\ Occurrences(gen.path, last) = 0
                  /\ \A k \in DOMAIN optimalPath :
                        (IsNative(optimalPath[k]) /\ k # Len(optimalPath)) =>
                            Occurrences(gen.path, optimalPath[k]) = 1
            /\ ~HasHangingFill(optimalPath) =>
                  \A k \in DOMAIN optimalPath :
                      IsNative(optimalPath[k]) =>
                          Occurrences(gen.path, optimalPath[k]) = 1

\* an adopted composite that drops a hanging fill and keeps another native one
C7_Witness ==
    /\ gen.materialized
    /\ gen.adopted
    /\ HasHangingFill(gen.optimalPath)
    /\ Len(NativeFills(gen.optimalPath)) >= 2
    /\ Len(gen.nonNativeOptimalPath) > 0
    /\ Len(NativeFills(gen.path)) = Len(NativeFills(gen.optimalPath)) - 1

\* C8: with fallback allowed, an optimal path of native fills only always
\* adopts the composite, whatever the slippage, and drops no native fill; with
\* an empty fallback path the resolved path is the native fills alone and the
\* resolution raises nothing.
C8_AllNativeAlwaysAdopts ==
    (/\ gen.invoked
     /\ opts.allowFallback
     /\ gen.optimalPath # <<>>
     /\ AllNative(gen.optimalPath)) =>
        /\ gen.materialized
        /\ gen.adopted
        /\ gen.path = gen.optimalPath \o gen.nonNativeOptimalPath
        /\ gen.nonNativeOptimalPath = <<>> => gen.path = gen.optimalPath
        /\ gen.threw # "NoOptimalPath"

\* an all-native path adopted above the slippage bound with no fallback path
C8_Witness ==
    /\ gen.materialized
    /\ opts.allowFallback
    /\ Len(gen.optimalPath) >= 2
    /\ AllNative(gen.optimalPath)
    /\ gen.fallbackSlippage > OptsMaxFallbackSlippage
    /\ gen.nonNativeOptimalPath = <<>>
    /\ gen.adopted
    /\ gen.path = gen.optimalPath
    /\ gen.threw = "none"

\* C9 (as claimed): in the path handed to the order materializer no native
\* fill comes after a non-native fill.
C9_NativeNeverAfterNonNative ==
    gen.materialized => NativeFirst(gen.path)

\* C9 (amended): when the fallback composite is adopted, no native fill comes
\* after a non-native fill in the path handed to the order materializer.
C9_AdoptedCompositeNativeFirst ==
    (gen.materialized /\ gen.adopted) => NativeFirst(gen.path)

\* an interleaved optimal path rebuilt native-first
C9_Witness ==
    /\ gen.materialized
    /\ gen.adopted
    /\ ~NativeFirst(gen.optimalPath)
    /\ \E k \in DOMAIN gen.path : IsNative(gen.path[k])
    /\ \E k \in DOMAIN gen.path : ~IsNative(gen.path[k])

\* C10: in a sell or buy call, when the optimizer returns no path the call
\* fails with NoOptimalPath and neither the fallback search, nor the order
\* materializer, nor the report generator runs.
C10_NoOptimalPathSurfaces ==
    (/\ IsSingle
     /\ gen.invoked
     /\ gen.optimalPath = <<>>
     /\ gen.threw # "findOptimalPathAsync") =>
        /\ gen.threw = "NoOptimalPath"
        /\ outcome = "NoOptimalPath"
        /\ pc = "done"
        /\ ~gen.fallbackSearched
        /\ ~gen.materialized
        /\ ~gen.reported

C10_Witness ==
    /\ IsSingle
    /\ pc = "done"
    /\ gen.invoked
    /\ gen.threw = "NoOptimalPath"
    /\ outcome = "NoOptimalPath"


\* the call gave the quote client an enabled indicative configuration
IndicativeEnabled ==
    opts.rfqt.present /\ opts.rfqt.isIndicative /\ opts.rfqt.quoteRequestor

\* C11: in a sell or buy call, when any one of samplerPromise, rfqtPromise and
\* balancerPromise rejects, the call rejects, and the optimizer and the order
\* materializer are never invoked.
C11_JoinAllOrFail ==
    (IsSingle /\ \E b \in Branches : branches[b] = "rejected") =>
        /\ outcome = "Rejected"
        /\ pc = "done"
        /\ ~gen.invoked
        /\ ~gen.materialized
        /\ gen.orders = <<>>

\* the indicative quote fetch rejected after both sampler round trips resolved
C11_Witness ==
    /\ IsSingle
    /\ branches["rfqt"] = "rejected"
    /\ branches["sampler"] = "resolved"
    /\ branches["balancer"] = "resolved"
    /\ outcome = "Rejected"

\* C12: the indicative quote client is called only when opts.rfqt has
\* isIndicative true and a quoteRequestor; otherwise the branch resolves to an
\* empty list, the client is never called and the branch never rejects.
C12_RfqtOnlyWhenIndicative ==
    /\ (rfqtRequests # <<>> \/ calls.rfqt > 0) =>
            opts.rfqt.present /\ opts.rfqt.isIndicative /\ opts.rfqt.quoteRequestor
    /\ (IsSingle /\ submitted # <<>>
            /\ ~(opts.rfqt.present /\ opts.rfqt.isIndicative
                    /\ opts.rfqt.quoteRequestor)) =>
            /\ rfqtRequests = <<>>
            /\ calls.rfqt = 0
            /\ branches["rfqt"] = "resolved"
            /\ joined[2] = [kind |-> "value", value |-> <<>>]
            /\ gen.invoked => gen.args.rfqtIndicativeQuotes = <<>>

\* a call with a quote client but isIndicative false went through to path
\* construction with no indicative quotes
C12_Witness ==
    /\ IsSingle
    /\ opts.rfqt.present /\ ~opts.rfqt.isIndicative /\ opts.rfqt.quoteRequestor
    /\ gen.invoked
    /\ calls.rfqt = 0
    /\ gen.args.rfqtIndicativeQuotes = <<>>


\* the operations of every call made to the sampler
SubmittedOps ==
    UNION {Range(submitted[k].ops) : k \in DOMAIN submitted}

\* C14: a batch call never requests indicative quotes and never looks the
\* liquidity provider up in the registry, whatever the options hold; every pair
\* is resolved on the buy side with an empty list of indicative quotes.
C14_BatchNoRfqtNoRegistry ==
    entry = "batch" =>
        /\ rfqtRequests = <<>>
        /\ calls.rfqt = 0
        /\ \A op \in SubmittedOps : op.op # "getLiquidityProviderFromRegistry"
        /\ gen.invoked =>
              /\ gen.side = "buy"
              /\ gen.args.rfqtIndicativeQuotes = <<>>
              /\ gen.args.liquidityProviderAddress = Undefined

\* a batch call whose options enable indicative quotes resolved a pair
C14_Witness ==
    /\ entry = "batch"
    /\ IndicativeEnabled
    /\ gen.invoked
    /\ gen.materialized
    /\ outcome = "resolved"

\* C15: when allowFallback is false or optimalPath holds no native fill, the
\* path handed on is optimalPath itself and the non-native optimizer search is
\* not run.
C15_NoFallbackKeepsOptimalPath ==
    (gen.materialized /\ (~opts.allowFallback \/ NativeFills(gen.optimalPath) = <<>>)) =>
        /\ gen.path = gen.optimalPath
        /\ ~gen.fallbackSearched
        /\ ~gen.adopted

\* allowFallback is false and optimalPath mixes native and other fills
C15_Witness ==
    /\ gen.materialized
    /\ ~opts.allowFallback
    /\ NativeFills(gen.optimalPath) # <<>>
    /\ ~AllNative(gen.optimalPath)
    /\ gen.path = gen.optimalPath

\* C16: a batch call of N pairs makes exactly one executeBatchAsync call, with
\* 3N operations: N fillable-amount lookups, N rate lookups, N quote lookups, in
\* the order of the pairs; pair i is resolved with the results at positions i,
\* N+i and 2N+i, which are the results of its own three operations.
C16_BatchPositions ==
    LET n == Len(batchNativeOrders)
    IN  /\ (entry = "batch" /\ pc \in {"sampling", "resolving"}) => submitted # <<>>
        /\ (entry = "batch" /\ outcome = "resolved") => submitted # <<>>
        /\ (entry = "batch" /\ submitted # <<>>) =>
              /\ Len(submitted) = 1
              /\ calls.executeBatchAsync = 1
              /\ calls.executeAsync = 0
              /\ submitted[1].method = "executeBatchAsync"
              /\ Len(submitted[1].ops) = 3 * n
              /\ \A i \in 1..n :
                    LET fillable == submitted[1].ops[i]
                        rate == submitted[1].ops[n + i]
                        quotes == submitted[1].ops[2 * n + i]
                    IN  /\ fillable.op = "getOrderFillableMakerAmounts"
                        /\ fillable.orders = batchNativeOrders[i]
                        /\ rate.op = "getMedianSellRate"
                        /\ quotes.op = "getBuyQuotes"
                        /\ quotes.sampleAmounts = <<amounts[i]>>
                        /\ batchNativeOrders[i] # <<>> =>
                              /\ rate.makerToken = batchNativeOrders[i][1].takerAssetData
                              /\ quotes.makerToken = batchNativeOrders[i][1].makerAssetData
                              /\ quotes.takerToken = batchNativeOrders[i][1].takerAssetData
              /\ gen.invoked =>
                    /\ gen.args.orderFillableAmounts = [of |-> submitted[1].ops[gen.pair]]
                    /\ gen.args.ethToOutputRate = [of |-> submitted[1].ops[n + gen.pair]]
                    /\ gen.args.dexQuotes = <<[of |-> submitted[1].ops[2 * n + gen.pair]]>>
                    /\ gen.args.orderFillableAmounts.of.orders = batchNativeOrders[gen.pair]
                    /\ gen.args.ethToOutputRate.of.makerToken =
                            batchNativeOrders[gen.pair][1].takerAssetData
                    /\ gen.args.dexQuotes[1].of.makerToken =
                            batchNativeOrders[gen.pair][1].makerAssetData

\* a batch of at least two pairs resolved its second pair
C16_Witness ==
    /\ entry = "batch"
    /\ Len(batchNativeOrders) >= 2
    /\ gen.invoked
    /\ gen.pair = 2
    /\ gen.materialized
    /\ outcome = "resolved"


\* C17: in a sell or buy call, whatever the order in which samplerPromise,
\* rfqtPromise and balancerPromise resolve, each value collected by the join and
\* each value passed to path construction is the result of its own request.
C17_OwnRequestValues ==
    IsSingle =>
        /\ (1 \in DOMAIN joined /\ joined[1].kind = "value") =>
              joined[1].value = [j \in 1..4 |-> [of |-> submitted[1].ops[j]]]
        /\ (2 \in DOMAIN joined /\ joined[2].kind = "value") =>
              joined[2].value = IF IndicativeEnabled
                                THEN <<[quoteFor |-> rfqtRequests[1]]>>
                                ELSE <<>>
        /\ (3 \in DOMAIN joined /\ joined[3].kind = "value") =>
              joined[3].value = <<[of |-> submitted[2].ops[1]]>>
        /\ gen.invoked =>
              /\ gen.args.orderFillableAmounts = [of |-> submitted[1].ops[1]]
              /\ gen.args.orderFillableAmounts.of.op =
                    (IF entry = "sell" THEN "getOrderFillableTakerAmounts"
                                       ELSE "getOrderFillableMakerAmounts")
              /\ gen.args.liquidityProviderAddress = [of |-> submitted[1].ops[2]]
              /\ gen.args.liquidityProviderAddress.of.op =
                    "getLiquidityProviderFromRegistry"
              /\ gen.args.ethToOutputRate = [of |-> submitted[1].ops[3]]
              /\ gen.args.ethToOutputRate.of.op = "getMedianSellRate"
              /\ gen.args.dexQuotes =
                    <<[of |-> submitted[1].ops[4]], [of |-> submitted[2].ops[1]]>>
              /\ Balancer \notin gen.args.dexQuotes[1].of.sources
              /\ gen.args.dexQuotes[2].of.sources \subseteq {Balancer}
              /\ gen.args.rfqtIndicativeQuotes =
                    (IF IndicativeEnabled
                     THEN <<[quoteFor |->
                               [makerAssetData |-> batchNativeOrders[1][1].makerAssetData,
                                takerAssetData |-> batchNativeOrders[1][1].takerAssetData,
                                assetFillAmount |-> amounts[1],
                                marketOperation |-> entry]]>>
                     ELSE <<>>)

\* the three branches resolved in the reverse of the order they were started
\* in, and path construction ran
C17_Witness ==
    /\ IsSingle
    /\ IndicativeEnabled
    /\ settleOrder = <<"balancer", "rfqt", "sampler">>
    /\ gen.invoked
    /\ gen.materialized

\* C18: in a sell or buy call Balancer is not among the sources of the main
\* quote request and is the only source the second round trip may sample; no
\* request of the call samples a source of excludedSources; no source is sampled
\* for quotes in both round trips.
C18_SourcePartition ==
    (IsSingle /\ submitted # <<>>) =>
        LET mainQuotes == submitted[1].ops[4]
            balancerQuotes == submitted[2].ops[1]
        IN  /\ mainQuotes.op \in {"getSellQuotes", "getBuyQuotes"}
            /\ balancerQuotes.op = mainQuotes.op
            /\ Len(submitted[2].ops) = 1
            /\ Balancer \notin mainQuotes.sources
            /\ balancerQuotes.sources \subseteq {Balancer}
            /\ mainQuotes.sources \cap balancerQuotes.sources = {}
            /\ \A op \in SubmittedOps : op.sources \cap opts.excludedSources = {}

\* a sell call that excludes MultiBridge sampled the other main sources in the
\* first round trip and Balancer in the second
C18_Witness ==
    /\ entry = "sell"
    /\ opts.excludedSources = {"MultiBridge"}
    /\ submitted # <<>>
    /\ submitted[2].ops[1].sources = {Balancer}
    /\ "Uniswap" \in submitted[1].ops[4].sources
    /\ "LiquidityProvider" \in submitted[1].ops[4].sources
    /\ gen.invoked

C20_MaterializedPathNonEmpty ==
    gen.materialized => gen.path # <<>>


\* C21: a batch call with zero pairs raises EmptyOrders; no sampling operation
\* is built, the sampler is not called, no pair is resolved, and the call does
\* not resolve to an empty list.
C21_EmptyBatchFailFast ==
    (entry = "batch" /\ Len(batchNativeOrders) = 0) =>
        /\ calls = NoCalls
        /\ submitted = <<>>
        /\ rfqtRequests = <<>>
        /\ ~gen.invoked
        /\ pc \in {"start", "done"}
        /\ outcome \in {"pending", "EmptyOrders"}
        /\ pc = "done" => outcome = "EmptyOrders"

\* a batch call with zero pairs has raised EmptyOrders
C21_Witness ==
    /\ entry = "batch"
    /\ Len(batchNativeOrders) = 0
    /\ pc = "done"
    /\ outcome = "EmptyOrders"
    /\ calls.ops = 0

====
